---------------------------- MODULE Spec2Model ----------------------------
(***************************************************************************)
(* Model of the leveraged-position backtest of stablecoins_optimizer:      *)
(* find_best_pairs and backtest_enhanced_strategy (src/utils/aave_utils).  *)
(*                                                                         *)
(* Floating point columns are modelled by exact rationals [n, d] in lowest *)
(* terms; d = 0 is the float NaN.  Asset cells of the result table hold an *)
(* asset name, "None" (Python None) or "NaN" (the fill value of a column   *)
(* that was never written): an object column keeps a None assigned through *)
(* .loc as None, and "x is not None" is true of NaN.  Rows are indexed     *)
(* from 0 as in the source: Iloc(t, j) is t.iloc[j].  In Spec the input    *)
(* table is taken sorted by timestamp with the default 0..n-1 index, so    *)
(* that data_df.loc[i] and results.iloc[i] are the same period;            *)
(* SpecAnyOrder takes the rows in any order.  SpecAnyPeriods, SpecSizing   *)
(* and SpecSelector exercise the look-back parameter, the leverage sizing  *)
(* and the selector on their own.                                          *)
(***************************************************************************)
EXTENDS Integers, Sequences, FiniteSets, TLC

VARIABLES data_df, results, current_spread, LTV, stop_condition,
          initial_collateral, time_interval_hours, consecutive_periods,
          number_of_loops, leverage, market_state, last_call

params == <<LTV, stop_condition, initial_collateral, time_interval_hours,
            consecutive_periods, number_of_loops, leverage>>

(* The state of the accrual library's callers: the MarketState held and    *)
(* the latest call made with its arguments.                                *)
market_vars == <<market_state, last_call>>

vars == <<data_df, results, current_spread, params, market_vars>>

---------------------------------------------------------------------------
(* Bounds of the exploration and the input domains.                        *)

MaxRows == 3

Assets == <<"A", "B">>

AssetSet == {Assets[k] : k \in 1..Len(Assets)}

(* <<supply rate, borrow rate>> in percent, per asset. *)
RateChoices == [A |-> {<<20, 10>>, <<20, 40>>, <<10, 40>>},
                B |-> {<<20, 10>>, <<0, 10>>, <<0, 40>>}]

HoursChoices == {4380}

PeriodChoices == {1, 2}

LoopConfigs == {[LTV |-> <<1, 2>>, stop |-> <<3, 10>>]}

CollateralChoices == {10}

---------------------------------------------------------------------------
(* Exact arithmetic standing for float64.                                  *)

Abs(x) == IF x < 0 THEN -x ELSE x

RECURSIVE GCD(_, _)
GCD(a, b) == IF b = 0 THEN a ELSE GCD(b, a % b)

NaN == [n |-> 0, d |-> 0]

Norm(n, d) ==
    IF d = 0 THEN NaN
    ELSE LET g == GCD(Abs(n), Abs(d))
             s == IF d < 0 THEN -1 ELSE 1
         IN  [n |-> (s * n) \div g, d |-> (s * d) \div g]

R(k) == [n |-> k, d |-> 1]

Zero == R(0)

IsNaN(x) == x.d = 0

RAdd(x, y) == IF IsNaN(x) \/ IsNaN(y) THEN NaN
              ELSE Norm(x.n * y.d + y.n * x.d, x.d * y.d)

RSub(x, y) == IF IsNaN(x) \/ IsNaN(y) THEN NaN
              ELSE Norm(x.n * y.d - y.n * x.d, x.d * y.d)

RMul(x, y) == IF IsNaN(x) \/ IsNaN(y) THEN NaN
              ELSE Norm(x.n * y.n, x.d * y.d)

RDiv(x, y) == IF IsNaN(x) \/ IsNaN(y) THEN NaN
              ELSE Norm(x.n * y.d, x.d * y.n)

(* Comparisons with NaN are false, as for IEEE floats. *)
RLt(x, y) == ~IsNaN(x) /\ ~IsNaN(y) /\ x.n * y.d < y.n * x.d

RLe(x, y) == ~IsNaN(x) /\ ~IsNaN(y) /\ x.n * y.d <= y.n * x.d

RGt(x, y) == RLt(y, x)

RECURSIVE RPow(_, _)
RPow(x, k) == IF k = 0 THEN R(1) ELSE RMul(x, RPow(x, k - 1))

---------------------------------------------------------------------------
(* Python object semantics of the asset cells.                             *)

IsNone(x) == x = "None"

PdIsNa(x) == x \in {"None", "NaN"}

(* x == y in Python: NaN is unequal to everything, itself included. *)
PyEq(x, y) == x = y /\ x # "NaN"

Iloc(t, j) == t[j + 1]

---------------------------------------------------------------------------
(* Input rows: per asset a supply and a borrow rate (percent), NaN for an  *)
(* asset that prepare_rates_data marked unavailable.                       *)

AssetRates(a) ==
    {[supply |-> R(c[1]), borrow |-> R(c[2])] : c \in RateChoices[a]}
    \cup {[supply |-> NaN, borrow |-> NaN]}

RateRows ==
    {o \in [AssetSet -> UNION {AssetRates(a) : a \in AssetSet}] :
        \A a \in AssetSet : o[a] \in AssetRates(a)}

SupplyApy(df, i, asset) == Iloc(df, i).rates[asset].supply

BorrowApy(df, i, asset) == Iloc(df, i).rates[asset].borrow

---------------------------------------------------------------------------
(* find_best_pairs, for one input row: the nested scan over the non-NaN    *)
(* supply and borrow columns in column order, keeping the first pair whose *)
(* spread is strictly greater than the best so far (initially -inf,        *)
(* modelled by best_supply_asset still being None).                        *)

NumAssets == Len(Assets)

(* Variant: the columns are scanned from the last to the first. *)
PairAtLastColumnFirst(k) ==
    <<Assets[NumAssets - ((k - 1) \div NumAssets)],
      Assets[NumAssets - ((k - 1) % NumAssets)]>>

PairAt(k) == <<Assets[((k - 1) \div NumAssets) + 1],
               Assets[((k - 1) % NumAssets) + 1]>>

RECURSIVE ScanPairs(_, _, _)
ScanPairs(o, k, best) ==
    IF k > NumAssets * NumAssets THEN best
    ELSE LET supply_asset == PairAt(k)[1]
             borrow_asset == PairAt(k)[2]
             listed == ~IsNaN(o[supply_asset].supply)
                       /\ ~IsNaN(o[borrow_asset].borrow)
             spread == RSub(o[supply_asset].supply, o[borrow_asset].borrow)
         IN  IF listed /\ (IsNone(best.best_supply_asset)
                           \/ RGt(spread, best.spread))
             THEN ScanPairs(o, k + 1,
                            [best_supply_asset |-> supply_asset,
                             best_borrow_asset |-> borrow_asset,
                             spread |-> spread])
             ELSE ScanPairs(o, k + 1, best)

(* Variant: a period without any pair reports a spread of 0. *)
find_best_pairs_zero_spread(o) ==
    LET best == ScanPairs(o, 1, [best_supply_asset |-> "None",
                                 best_borrow_asset |-> "None",
                                 spread |-> NaN])
    IN  [best_supply_asset |-> best.best_supply_asset,
         best_borrow_asset |-> best.best_borrow_asset,
         supply_apy |-> IF IsNone(best.best_supply_asset) THEN NaN
                        ELSE o[best.best_supply_asset].supply,
         borrow_apy |-> IF IsNone(best.best_borrow_asset) THEN NaN
                        ELSE o[best.best_borrow_asset].borrow,
         spread |-> IF IsNone(best.best_supply_asset) THEN Zero
                    ELSE best.spread]

find_best_pairs(o) ==
    LET best == ScanPairs(o, 1, [best_supply_asset |-> "None",
                                 best_borrow_asset |-> "None",
                                 spread |-> NaN])
    IN  [best_supply_asset |-> best.best_supply_asset,
         best_borrow_asset |-> best.best_borrow_asset,
         supply_apy |-> IF IsNone(best.best_supply_asset) THEN NaN
                        ELSE o[best.best_supply_asset].supply,
         borrow_apy |-> IF IsNone(best.best_borrow_asset) THEN NaN
                        ELSE o[best.best_borrow_asset].borrow,
         spread |-> best.spread]

---------------------------------------------------------------------------
(* Leverage sizing (lines 248-251).  ceil(ln(stop)/ln(LTV)) is the least   *)
(* n >= 0 with LTV^n <= stop for LTV in (0,1) and stop in (0,1].           *)

RECURSIVE LeastLoops(_, _, _)
LeastLoops(ltv, stop, n) ==
    IF RLe(RPow(ltv, n), stop) THEN n ELSE LeastLoops(ltv, stop, n + 1)

(* Variant: the quotient of the logarithms rounded down instead of up. *)
NumberOfLoopsRoundedDown(ltv, stop) ==
    IF LeastLoops(ltv, stop, 0) = 0 THEN 0
    ELSE LeastLoops(ltv, stop, 0) - 1

NumberOfLoops(ltv, stop) == LeastLoops(ltv, stop, 0)

(* Variant: the last loop's deposit left out of the total. *)
TotalCollateralLastLoopLeftOut(collateral, ltv, loops) ==
    RMul(collateral,
         RDiv(RSub(R(1), RPow(ltv, loops)), RSub(R(1), ltv)))

TotalCollateral(collateral, ltv, loops) ==
    RMul(collateral,
         RDiv(RSub(R(1), RPow(ltv, loops + 1)), RSub(R(1), ltv)))

Leverage(collateral, ltv, loops) ==
    RDiv(TotalCollateral(collateral, ltv, loops), collateral)

TRANSACTION_COST_USD == Norm(6, 100)

SWAP_FEE_PERCENTAGE == Zero

NEGATIVE_SPREAD_LIMIT == R(-10)

HOURS_PER_YEAR == RMul(R(24), R(365))

---------------------------------------------------------------------------
(* The result table.  NewRow is a row as lines 215-246 leave it: the       *)
(* selector's columns, hours_diff, and every other column at its fill      *)
(* value (0 for the filled columns, NaN for those created without fill).   *)

NewRow(o, ts, hours) ==
    LET best == find_best_pairs(o)
    IN  [timestamp |-> ts,
         best_supply_asset |-> best.best_supply_asset,
         best_borrow_asset |-> best.best_borrow_asset,
         supply_apy |-> best.supply_apy,
         borrow_apy |-> best.borrow_apy,
         spread |-> best.spread,
         hours_diff |-> hours,
         rebalance_count |-> 0,
         transaction_count |-> 0,
         total_swaps |-> Zero,
         total_transactions |-> 0,
         swap_count |-> Zero,
         current_supply_asset |-> "NaN",
         current_borrow_asset |-> "NaN",
         current_supply_rate |-> Zero,
         current_borrow_rate |-> Zero,
         current_spread |-> Zero,
         position_value |-> NaN,
         rebalance_status |-> "no_rebalance",
         total_collateral |-> NaN,
         leverage |-> NaN,
         period_return |-> Zero,
         annualized_return |-> Zero,
         transaction_costs_usd |-> Zero,
         swap_costs_usd |-> Zero,
         total_costs_usd |-> Zero,
         position_value_after_costs |-> NaN]

(* Row 0 (lines 253-275): the position is opened at once when the first    *)
(* best-pair spread is positive.                                           *)
InitialRow(o, ts) ==
    LET total_collateral ==
            TotalCollateral(initial_collateral, LTV, number_of_loops)
        row == [NewRow(o, ts, R(time_interval_hours)) EXCEPT
                    !.position_value = initial_collateral,
                    !.total_collateral = total_collateral,
                    !.leverage = leverage]
        transaction_count == 2 * number_of_loops
        initial_transaction_costs ==
            RMul(R(transaction_count), TRANSACTION_COST_USD)
        initial_swap_costs ==
            RMul(RMul(total_collateral, SWAP_FEE_PERCENTAGE), R(1))
    IN  IF RGt(row.spread, Zero)
        THEN [row EXCEPT
                !.current_supply_asset = row.best_supply_asset,
                !.current_borrow_asset = row.best_borrow_asset,
                !.current_spread = row.spread,
                !.rebalance_count = 1,
                !.transaction_count = transaction_count,
                !.swap_count = R(1),
                !.transaction_costs_usd = initial_transaction_costs,
                !.swap_costs_usd = initial_swap_costs,
                !.total_costs_usd =
                    RAdd(initial_transaction_costs, initial_swap_costs),
                !.position_value_after_costs =
                    RSub(RSub(initial_collateral, initial_transaction_costs),
                         initial_swap_costs)]
        ELSE [row EXCEPT !.position_value_after_costs = initial_collateral]

---------------------------------------------------------------------------
(* One pass of the simulation loop (lines 279-442) for row i >= 1.         *)
(* tbl is the table with row i already holding its NewRow columns, df the  *)
(* input table, cs the value of the local variable current_spread on       *)
(* entry to the pass.                                                      *)

HasAsset(x) == ~IsNone(x) /\ ~PdIsNa(x)

(* Variant: the row keeps the spread recorded in row i-1. *)
LatestRatesKeepSpread(tbl, df, i, cs) ==
    LET prev == Iloc(tbl, i - 1)
        held == HasAsset(prev.current_supply_asset)
                /\ HasAsset(prev.current_borrow_asset)
    IN  [current_supply_rate |->
             IF HasAsset(prev.current_supply_asset)
             THEN SupplyApy(df, i, prev.current_supply_asset) ELSE Zero,
         current_borrow_rate |->
             IF held THEN BorrowApy(df, i, prev.current_borrow_asset)
             ELSE Zero,
         row_spread |-> prev.current_spread,
         current_spread |->
             IF held
             THEN RSub(SupplyApy(df, i, prev.current_supply_asset),
                       BorrowApy(df, i, prev.current_borrow_asset))
             ELSE cs]

(* Lines 287-303: the latest rates of the pair carried from row i-1.  The  *)
(* local current_spread is assigned only when both legs are held.          *)
LatestRates(tbl, df, i, cs) ==
    LET prev == Iloc(tbl, i - 1)
    IN  IF HasAsset(prev.current_supply_asset)
        THEN LET current_supply_rate ==
                     SupplyApy(df, i, prev.current_supply_asset)
             IN  IF HasAsset(prev.current_borrow_asset)
                 THEN LET current_borrow_rate ==
                              BorrowApy(df, i, prev.current_borrow_asset)
                          spread ==
                              RSub(current_supply_rate, current_borrow_rate)
                      IN  [current_supply_rate |-> current_supply_rate,
                           current_borrow_rate |-> current_borrow_rate,
                           row_spread |-> spread,
                           current_spread |-> spread]
                 ELSE [current_supply_rate |-> current_supply_rate,
                       current_borrow_rate |-> Zero,
                       row_spread |-> Zero,
                       current_spread |-> cs]
        ELSE [current_supply_rate |-> Zero,
              current_borrow_rate |-> Zero,
              row_spread |-> Zero,
              current_spread |-> cs]

(* Variant: the threshold taken as a fraction of 1 instead of percent. *)
ExtremelyNegativeWrongUnit(tbl, i, spread) ==
    /\ ~IsNone(Iloc(tbl, i - 1).current_supply_asset)
    /\ RLt(spread, RMul(NEGATIVE_SPREAD_LIMIT, R(100)))

(* Line 311. *)
ExtremelyNegative(tbl, i, spread) ==
    /\ ~IsNone(Iloc(tbl, i - 1).current_supply_asset)
    /\ RLt(spread, NEGATIVE_SPREAD_LIMIT)

(* Lines 323-326 and 336: the look-back window of row i. *)
Window(i) == (i - (consecutive_periods - 1)) .. i

(* Variant: the look-back range starts one row too early. *)
has_negative_spread_long(tbl, i) ==
    \E j \in (i - consecutive_periods) .. i :
        RLe(Iloc(tbl, j).spread, Zero)

has_negative_spread(tbl, i) ==
    \E j \in Window(i) : RLe(Iloc(tbl, j).spread, Zero)

(* Variant: only the current period is compared with the held pair. *)
has_different_position_now(tbl, i) ==
    ~(/\ PyEq(Iloc(tbl, i).best_supply_asset,
              Iloc(tbl, i - 1).current_supply_asset)
      /\ PyEq(Iloc(tbl, i).best_borrow_asset,
              Iloc(tbl, i - 1).current_borrow_asset))

(* Lines 335-342. *)
has_different_position(tbl, i) ==
    LET current_supply == Iloc(tbl, i - 1).current_supply_asset
        current_borrow == Iloc(tbl, i - 1).current_borrow_asset
    IN  \A j \in Window(i) :
            ~(/\ PyEq(Iloc(tbl, j).best_supply_asset, current_supply)
              /\ PyEq(Iloc(tbl, j).best_borrow_asset, current_borrow))

(* Variant: the window rules are tried before the negative-spread exit. *)
DecisionWindowFirst(tbl, i, spread) ==
    LET prev == Iloc(tbl, i - 1)
        hold == [need_rebalance |-> FALSE,
                 new_supply_asset |-> prev.current_supply_asset,
                 new_borrow_asset |-> prev.current_borrow_asset,
                 new_spread |-> spread,
                 rebalance_status |-> "no_rebalance"]
        closed == [need_rebalance |-> TRUE,
                   new_supply_asset |-> "None",
                   new_borrow_asset |-> "None",
                   new_spread |-> Zero,
                   rebalance_status |-> "rebalanced_negative"]
    IN  IF i >= consecutive_periods
           /\ has_different_position(tbl, i)
           /\ RGt(Iloc(tbl, i).spread, Zero)
        THEN [need_rebalance |-> TRUE,
              new_supply_asset |-> Iloc(tbl, i).best_supply_asset,
              new_borrow_asset |-> Iloc(tbl, i).best_borrow_asset,
              new_spread |-> Iloc(tbl, i).spread,
              rebalance_status |-> "rebalanced_best_pair"]
        ELSE IF i >= consecutive_periods
                /\ has_negative_spread(tbl, i)
                /\ ~IsNone(prev.current_borrow_asset)
        THEN [need_rebalance |-> TRUE,
              new_supply_asset |-> prev.current_supply_asset,
              new_borrow_asset |-> "None",
              new_spread |-> Zero,
              rebalance_status |-> "rebalanced_negative"]
        ELSE IF ExtremelyNegative(tbl, i, spread) THEN closed
        ELSE hold

(* Lines 305-349: the rebalancing decision. *)
DecisionDropsSupply(tbl, i, spread) ==
    LET prev == Iloc(tbl, i - 1)
        hold == [need_rebalance |-> FALSE,
                 new_supply_asset |-> prev.current_supply_asset,
                 new_borrow_asset |-> prev.current_borrow_asset,
                 new_spread |-> spread,
                 rebalance_status |-> "no_rebalance"]
    IN  IF ExtremelyNegative(tbl, i, spread)
        THEN [need_rebalance |-> TRUE,
              new_supply_asset |-> "None",
              new_borrow_asset |-> "None",
              new_spread |-> Zero,
              rebalance_status |-> "rebalanced_negative"]
        ELSE IF i >= consecutive_periods
        THEN IF has_negative_spread(tbl, i)
                /\ ~IsNone(prev.current_borrow_asset)
             THEN [need_rebalance |-> TRUE,
                   new_supply_asset |-> "None",
                   new_borrow_asset |-> prev.current_borrow_asset,
                   new_spread |-> Zero,
                   rebalance_status |-> "rebalanced_negative"]
             ELSE IF has_different_position(tbl, i)
                     /\ RGt(Iloc(tbl, i).spread, Zero)
             THEN [need_rebalance |-> TRUE,
                   new_supply_asset |-> Iloc(tbl, i).best_supply_asset,
                   new_borrow_asset |-> Iloc(tbl, i).best_borrow_asset,
                   new_spread |-> Iloc(tbl, i).spread,
                   rebalance_status |-> "rebalanced_best_pair"]
             ELSE hold
        ELSE hold

Decision(tbl, i, spread) ==
    LET prev == Iloc(tbl, i - 1)
        hold == [need_rebalance |-> FALSE,
                 new_supply_asset |-> prev.current_supply_asset,
                 new_borrow_asset |-> prev.current_borrow_asset,
                 new_spread |-> spread,
                 rebalance_status |-> "no_rebalance"]
    IN  IF ExtremelyNegative(tbl, i, spread)
        THEN [need_rebalance |-> TRUE,
              new_supply_asset |-> "None",
              new_borrow_asset |-> "None",
              new_spread |-> Zero,
              rebalance_status |-> "rebalanced_negative"]
        ELSE IF i >= consecutive_periods
        THEN IF has_negative_spread(tbl, i)
                /\ ~IsNone(prev.current_borrow_asset)
             THEN [need_rebalance |-> TRUE,
                   new_supply_asset |-> prev.current_supply_asset,
                   new_borrow_asset |-> "None",
                   new_spread |-> Zero,
                   rebalance_status |-> "rebalanced_negative"]
             ELSE IF has_different_position(tbl, i)
                     /\ RGt(Iloc(tbl, i).spread, Zero)
             THEN [need_rebalance |-> TRUE,
                   new_supply_asset |-> Iloc(tbl, i).best_supply_asset,
                   new_borrow_asset |-> Iloc(tbl, i).best_borrow_asset,
                   new_spread |-> Iloc(tbl, i).spread,
                   rebalance_status |-> "rebalanced_best_pair"]
             ELSE hold
        ELSE hold

(* Lines 360-389: transactions and swaps charged to a rebalancing row. *)
TransactionCharges(prev, new_supply_asset, new_borrow_asset) ==
    LET current_has_debt == ~IsNone(prev.current_borrow_asset)
        new_has_debt == ~IsNone(new_borrow_asset)
    IN  IF current_has_debt
        THEN IF new_has_debt
             THEN [transaction_count |-> 4 * number_of_loops,
                   swap_count |-> R(2)]
             ELSE [transaction_count |-> (2 * number_of_loops) + 2,
                   swap_count |-> R(1)]
        ELSE IF new_has_debt
             THEN [transaction_count |-> 2 * number_of_loops,
                   swap_count |-> R(1)]
             ELSE IF ~PyEq(new_supply_asset, prev.current_supply_asset)
                  THEN [transaction_count |-> 2,
                        swap_count |-> RDiv(R(1), leverage)]
                  ELSE [transaction_count |-> 0, swap_count |-> Zero]

(* Lines 351-422: position, counters and costs of row i. *)
Rebalanced(tbl, i, row, dec) ==
    LET prev == Iloc(tbl, i - 1)
        total_collateral == RMul(prev.position_value, leverage)
        charge == TransactionCharges(prev, dec.new_supply_asset,
                                     dec.new_borrow_asset)
        new_has_debt == ~IsNone(dec.new_borrow_asset)
        period_transaction_costs ==
            RMul(R(charge.transaction_count), TRANSACTION_COST_USD)
        swap_amount == IF new_has_debt THEN total_collateral
                       ELSE prev.position_value
        period_swap_costs ==
            IF RGt(charge.swap_count, Zero)
            THEN RMul(RMul(swap_amount, SWAP_FEE_PERCENTAGE),
                      charge.swap_count)
            ELSE Zero
    IN  [row EXCEPT
            !.current_supply_asset = dec.new_supply_asset,
            !.current_borrow_asset = dec.new_borrow_asset,
            !.current_spread = dec.new_spread,
            !.rebalance_count = 1,
            !.total_collateral = total_collateral,
            !.transaction_count = charge.transaction_count,
            !.swap_count = charge.swap_count,
            !.total_swaps = RAdd(prev.total_swaps, charge.swap_count),
            !.total_transactions =
                prev.total_transactions + charge.transaction_count,
            !.transaction_costs_usd = period_transaction_costs,
            !.swap_costs_usd = period_swap_costs,
            !.total_costs_usd =
                RAdd(RAdd(period_transaction_costs, period_swap_costs),
                     prev.total_costs_usd)]

NotRebalanced(tbl, i, row) ==
    LET prev == Iloc(tbl, i - 1)
    IN  [row EXCEPT
            !.total_swaps = prev.total_swaps,
            !.total_transactions = prev.total_transactions,
            !.total_costs_usd = prev.total_costs_usd]

(* Lines 424-435: the annualized return of a row, as a fraction. *)
AnnualizedReturn(row) ==
    LET supply_rate_decimal == RDiv(row.current_supply_rate, R(100))
        spread_decimal == RDiv(row.current_spread, R(100))
    IN  IF ~IsNone(row.current_borrow_asset)
        THEN RAdd(supply_rate_decimal,
                  RMul(spread_decimal, RSub(leverage, R(1))))
        ELSE supply_rate_decimal

PeriodReturn(row, annualized_return) ==
    RMul(annualized_return, RDiv(row.hours_diff, HOURS_PER_YEAR))

(* Variant: only the costs of the period itself are subtracted. *)
ValuedPeriodCosts(tbl, i, row) ==
    LET prev == Iloc(tbl, i - 1)
        annualized_return == AnnualizedReturn(row)
        period_return == PeriodReturn(row, annualized_return)
        position_value ==
            RMul(prev.position_value, RAdd(R(1), period_return))
    IN  [row EXCEPT
            !.period_return = RMul(period_return, R(100)),
            !.annualized_return = RMul(annualized_return, R(100)),
            !.position_value = position_value,
            !.position_value_after_costs =
                RSub(position_value,
                     RAdd(row.transaction_costs_usd, row.swap_costs_usd))]

(* Lines 438-442. *)
Valued(tbl, i, row) ==
    LET prev == Iloc(tbl, i - 1)
        annualized_return == AnnualizedReturn(row)
        period_return == PeriodReturn(row, annualized_return)
        position_value ==
            RMul(prev.position_value, RAdd(R(1), period_return))
    IN  [row EXCEPT
            !.period_return = RMul(period_return, R(100)),
            !.annualized_return = RMul(annualized_return, R(100)),
            !.position_value = position_value,
            !.position_value_after_costs =
                RSub(position_value, row.total_costs_usd)]

(* The whole pass: the new row i and the local current_spread after it. *)
LoopPass(tbl, df, i, cs) ==
    LET prev == Iloc(tbl, i - 1)
        rates == LatestRates(tbl, df, i, cs)
        carried == [Iloc(tbl, i) EXCEPT
                       !.current_supply_asset = prev.current_supply_asset,
                       !.current_borrow_asset = prev.current_borrow_asset,
                       !.rebalance_status = "no_rebalance",
                       !.rebalance_count = 0,
                       !.transaction_count = 0,
                       !.current_supply_rate = rates.current_supply_rate,
                       !.current_borrow_rate = rates.current_borrow_rate,
                       !.current_spread = rates.row_spread]
        dec == Decision(tbl, i, rates.current_spread)
        tagged == [carried EXCEPT !.rebalance_status = dec.rebalance_status]
        charged == IF dec.need_rebalance
                   THEN Rebalanced(tbl, i, tagged, dec)
                   ELSE NotRebalanced(tbl, i, tagged)
    IN  [row |-> Valued(tbl, i, charged),
         current_spread |-> rates.current_spread]

---------------------------------------------------------------------------
(* The fixed-point accrual library (src/utils/morpho_utils, with the       *)
(* constants of src/utils/constants).  Python integers are unbounded; the  *)
(* model keeps the source's formulas and scales WAD from 10^18 down to     *)
(* 10^WadDigits so that every product stays within the checker's integers. *)
(* The floor division // is \div.  A call that raises is modelled by its   *)
(* outcome: Raises(e) where the source raises e, Returns(v) otherwise.     *)

WadDigits == 2

MaxAccruals == 2

MaxAmount == 4

pow10(exponent) == 10 ^ exponent

WAD == pow10(WadDigits)

SECONDS_PER_YEAR == 365 * 24 * 3600

Returns(v) == [raised |-> "None", value |-> v]

Raises(e) == [raised |-> e, value |-> 0]

w_taylor_compounded(rate, time) ==
    LET x == (rate * time) \div SECONDS_PER_YEAR
    IN  WAD + x + ((x * x) \div (2 * WAD))

to_assets_up(shares, total_assets, total_shares) ==
    IF total_shares # 0
    THEN (shares * total_assets + total_shares - 1) \div total_shares
    ELSE shares

to_shares_down(assets, total_assets, total_shares) ==
    IF total_assets # 0
    THEN (assets * total_shares) \div total_assets
    ELSE assets

w_div_up(a, b) ==
    IF b = 0 THEN Raises("ZeroDivisionError")
    ELSE Returns((a + b - 1) \div b)

w_mul_down(a, b) == (a * b) \div WAD

(* Variant: a zero denominator yields 0 instead of raising. *)
w_div_down_or_zero(a, b) ==
    IF b = 0 THEN Returns(0)
    ELSE Returns((a * WAD) \div b)

w_div_down(a, b) ==
    IF b = 0 THEN Raises("ZeroDivisionError")
    ELSE Returns((a * WAD) \div b)

MarketState(total_supply_assets, total_supply_shares, total_borrow_assets, total_borrow_shares, last_update, fee) ==
    [total_supply_assets |-> total_supply_assets,
     total_supply_shares |-> total_supply_shares,
     total_borrow_assets |-> total_borrow_assets,
     total_borrow_shares |-> total_borrow_shares,
     last_update |-> last_update,
     fee |-> fee]

(* Lines 153-156. *)
Interest(market, borrow_rate, elapsed) ==
    w_mul_down(market.total_borrow_assets,
               w_taylor_compounded(borrow_rate, elapsed))

(* Variant: the fee shares are taken out of the supply shares. *)
FeeSharesBurned(market, interest) ==
    IF market.fee # 0
    THEN LET fee_amount == w_mul_down(interest, market.fee)
         IN  0 - to_shares_down(
                     fee_amount,
                     market.total_supply_assets + interest - fee_amount,
                     market.total_supply_shares)
    ELSE 0

(* Lines 159-169: the shares minted for the fee, 0 without a fee. *)
FeeShares(market, interest) ==
    IF market.fee # 0
    THEN LET fee_amount == w_mul_down(interest, market.fee)
         IN  to_shares_down(
                 fee_amount,
                 market.total_supply_assets + interest - fee_amount,
                 market.total_supply_shares)
    ELSE 0

(* Variant: the suppliers are credited the interest net of the fee. *)
AccruedNetOfFee(last_block_timestamp, market, interest) ==
    MarketState(market.total_supply_assets + interest
                    - w_mul_down(interest, market.fee),
                market.total_supply_shares + FeeShares(market, interest),
                market.total_borrow_assets + interest,
                market.total_borrow_shares,
                last_block_timestamp,
                market.fee)

(* Lines 157-177: the state returned when there is debt. *)
Accrued(last_block_timestamp, market, interest) ==
    MarketState(market.total_supply_assets + interest,
                market.total_supply_shares + FeeShares(market, interest),
                market.total_borrow_assets + interest,
                market.total_borrow_shares,
                last_block_timestamp,
                market.fee)

(* Variant: a market without debt is returned reset. *)
accrue_interests_reset_idle(last_block_timestamp, market, borrow_rate) ==
    LET elapsed == last_block_timestamp - market.last_update
    IN  IF elapsed = 0 THEN market
        ELSE IF market.total_borrow_assets # 0
        THEN Accrued(last_block_timestamp, market,
                     Interest(market, borrow_rate, elapsed))
        ELSE MarketState(0, 0, 0, 0, last_block_timestamp, 0)

(* Variant: no early return when no time has elapsed. *)
accrue_interests_every_call(last_block_timestamp, market, borrow_rate) ==
    LET elapsed == last_block_timestamp - market.last_update
    IN  IF market.total_borrow_assets # 0
        THEN Accrued(last_block_timestamp, market,
                     Interest(market, borrow_rate, elapsed))
        ELSE market

(* Lines 147-178. *)
accrue_interests(last_block_timestamp, market, borrow_rate) ==
    LET elapsed == last_block_timestamp - market.last_update
    IN  IF elapsed = 0 THEN market
        ELSE IF market.total_borrow_assets # 0
        THEN Accrued(last_block_timestamp, market,
                     Interest(market, borrow_rate, elapsed))
        ELSE market

(* The market variables of a run that makes no use of the library. *)
NoCall(market) ==
    [count |-> 0, last_block_timestamp |-> market.last_update,
     market_state |-> market, borrow_rate |-> 0]

MarketIdle ==
    /\ market_state = MarketState(0, 0, 0, 0, 0, 0)
    /\ last_call = NoCall(MarketState(0, 0, 0, 0, 0, 0))

---------------------------------------------------------------------------
(* The state machine.  The run's parameters are drawn at Init, with the    *)
(* sizing derived from them (lines 248-251, fixed for the run); the input  *)
(* series is drawn one row at a time, which is sound because row i of the  *)
(* output reads input rows 0..i only.  Timestamps are evenly spaced, as in *)
(* the series the data collaborator delivers.                              *)

SECONDS_PER_HOUR == 3600

Init ==
    /\ MarketIdle
    /\ data_df = << >>
    /\ results = << >>
    /\ current_spread = Zero
    /\ \E cfg \in LoopConfigs, c \in CollateralChoices :
          LET ltv == Norm(cfg.LTV[1], cfg.LTV[2])
              stop == Norm(cfg.stop[1], cfg.stop[2])
              loops == NumberOfLoops(ltv, stop)
          IN  /\ LTV = ltv
              /\ stop_condition = stop
              /\ initial_collateral = R(c)
              /\ number_of_loops = loops
              /\ leverage = Leverage(R(c), ltv, loops)
    /\ time_interval_hours \in HoursChoices
    /\ consecutive_periods \in PeriodChoices

(* Lines 215-275: the selector's row 0 and the initial position. *)
InitializeFirstPosition ==
    /\ results = << >>
    /\ \E o \in RateRows :
          /\ data_df' = <<[timestamp |-> 0, rates |-> o]>>
          /\ results' = <<InitialRow(o, 0)>>
    /\ UNCHANGED <<current_spread, params, market_vars>>

(* One pass of the loop of line 279 over the next input row. *)
SimulatePeriod ==
    /\ Len(results) >= 1
    /\ Len(results) < MaxRows
    /\ \E o \in RateRows :
          LET i == Len(results)
              ts == Iloc(data_df, i - 1).timestamp
                        + time_interval_hours * SECONDS_PER_HOUR
              hours == Norm(ts - Iloc(data_df, i - 1).timestamp,
                            SECONDS_PER_HOUR)
              df == Append(data_df, [timestamp |-> ts, rates |-> o])
              tbl == Append(results, NewRow(o, ts, hours))
              pass == LoopPass(tbl, df, i, current_spread)
          IN  /\ data_df' = df
              /\ results' = Append(results, pass.row)
              /\ current_spread' = pass.current_spread
    /\ UNCHANGED <<params, market_vars>>

Next == InitializeFirstPosition \/ SimulatePeriod

Spec == Init /\ [][Next]_vars

---------------------------------------------------------------------------
(* Vocabulary of the properties.  A cell that holds no asset shows as None *)
(* or NaN in the output; both are "none" to a reader of the table.         *)

NumRows == Len(results)

Row(i) == Iloc(results, i)

NoAsset(x) == x \in {"None", "NaN"}

NoPosition(r) ==
    NoAsset(r.current_supply_asset) /\ NoAsset(r.current_borrow_asset)

SimplePosition(r) ==
    ~NoAsset(r.current_supply_asset) /\ NoAsset(r.current_borrow_asset)

LeveragedPosition(r) ==
    ~NoAsset(r.current_supply_asset) /\ ~NoAsset(r.current_borrow_asset)

(* The spread, at period i's rates, of the pair held in row i-1. *)
HeldSpread(i) ==
    RSub(SupplyApy(data_df, i, Row(i - 1).current_supply_asset),
         BorrowApy(data_df, i, Row(i - 1).current_borrow_asset))

HoldsBestPair(i) ==
    /\ LeveragedPosition(Row(i))
    /\ Row(i).current_supply_asset = Row(i).best_supply_asset
    /\ Row(i).current_borrow_asset = Row(i).best_borrow_asset

LastPeriods(i) == (i - consecutive_periods + 1) .. i

---------------------------------------------------------------------------
(* C1: whenever the position carried from row i-1 is leveraged and the     *)
(* spread of the held pair at period i is below -10, row i is tagged       *)
(* rebalanced_negative and holds neither a supply nor a borrow asset.      *)
NegativeSpreadCircuitBreaker ==
    \A i \in 1 .. NumRows - 1 :
        (LeveragedPosition(Row(i - 1)) /\ RLt(HeldSpread(i), R(-10)))
        => /\ Row(i).rebalance_status = "rebalanced_negative"
           /\ NoAsset(Row(i).current_borrow_asset)
           /\ NoAsset(Row(i).current_supply_asset)

(* A leveraged position met a held spread below -10 and was closed. *)
CircuitBreakerTripped ==
    \E i \in 1 .. NumRows - 1 :
        /\ LeveragedPosition(Row(i - 1))
        /\ RLt(HeldSpread(i), R(-10))
        /\ NoPosition(Row(i))

(* C2 as stated: in every period, the first ones included and whatever the *)
(* earlier spreads were, NoPosition carried in and a positive best-pair    *)
(* spread give a leveraged row holding the period's best pair.             *)
CarriesNoPosition(i) == i = 0 \/ NoPosition(Row(i - 1))

DeleveredAt(i) ==
    /\ LeveragedPosition(Row(i - 1))
    /\ SimplePosition(Row(i))
    /\ Row(i).current_supply_asset = Row(i - 1).current_supply_asset

DeleverOnlyAfterWholeWindowNonPositive ==
    \A i \in 1 .. NumRows - 1 :
        DeleveredAt(i)
        => /\ i >= consecutive_periods
           /\ \A j \in LastPeriods(i) : ~RGt(Row(j).spread, Zero)

(* C4: at a period i >= consecutive_periods in which no exit was taken,    *)
(* the row is tagged rebalanced_best_pair exactly when the pair held in    *)
(* row i-1 differs from the best pair of each of the last                  *)
(* consecutive_periods periods and the spread of period i is > 0; a        *)
(* switched row holds the best pair of period i at that period's spread.   *)
HeldPairDiffers(i) ==
    \A j \in LastPeriods(i) :
        ~(/\ PyEq(Row(j).best_supply_asset, Row(i - 1).current_supply_asset)
          /\ PyEq(Row(j).best_borrow_asset, Row(i - 1).current_borrow_asset))

BestPairSwitchRule ==
    \A i \in 1 .. NumRows - 1 :
        (i >= consecutive_periods
         /\ Row(i).rebalance_status # "rebalanced_negative")
        => /\ (Row(i).rebalance_status = "rebalanced_best_pair")
              <=> (HeldPairDiffers(i) /\ RGt(Row(i).spread, Zero))
           /\ (Row(i).rebalance_status = "rebalanced_best_pair")
              => /\ HoldsBestPair(i)
                 /\ Row(i).current_spread = Row(i).spread

(* A leveraged position was switched to another pair. *)
SwitchedPair ==
    \E i \in 1 .. NumRows - 1 :
        /\ LeveragedPosition(Row(i - 1))
        /\ Row(i).rebalance_status = "rebalanced_best_pair"
        /\ HoldsBestPair(i)
        /\ <<Row(i).current_supply_asset, Row(i).current_borrow_asset>>
           # <<Row(i - 1).current_supply_asset,
               Row(i - 1).current_borrow_asset>>

(* C5 as stated: a row in which no rule fired has the supply asset, the    *)
(* borrow asset and the spread of row i-1 and the tag no_rebalance.        *)
NothingFired(i) == Row(i).rebalance_count = 0

CarriesPair(i) ==
    /\ Row(i).current_supply_asset = Row(i - 1).current_supply_asset
    /\ Row(i).current_borrow_asset = Row(i - 1).current_borrow_asset
    /\ Row(i).rebalance_status = "no_rebalance"

HoldCarriesPairAndSpread ==
    \A i \in 1 .. NumRows - 1 :
        NothingFired(i)
        => /\ CarriesPair(i)
           /\ Row(i).current_spread = Row(i - 1).current_spread

(* C5 amended: such a row has the supply and borrow asset of row i-1 and   *)
(* the tag no_rebalance; its spread is the held pair's spread at period    *)
(* i's rates (0 when row i-1 does not hold both legs).                     *)
HoldCarriesPairRefreshesSpread ==
    \A i \in 1 .. NumRows - 1 :
        NothingFired(i)
        => /\ CarriesPair(i)
           /\ Row(i).current_spread =
                 IF LeveragedPosition(Row(i - 1)) THEN HeldSpread(i)
                 ELSE Zero

(* A leveraged position was held while the spread of its pair moved. *)
HeldThroughRateChange ==
    \E i \in 1 .. NumRows - 1 :
        /\ NothingFired(i)
        /\ LeveragedPosition(Row(i - 1))
        /\ LeveragedPosition(Row(i))
        /\ ~IsNaN(HeldSpread(i))
        /\ HeldSpread(i) # Row(i - 1).current_spread

(* C6: one rule at most takes effect in a row, and of the rules whose      *)
(* conditions hold together the first in the order negative exit,          *)
(* suboptimal exit, best-pair switch is the one applied.                   *)
NegativeExitCondition(i) ==
    LeveragedPosition(Row(i - 1)) /\ RLt(HeldSpread(i), R(-10))

SuboptimalExitCondition(i) ==
    /\ i >= consecutive_periods
    /\ LeveragedPosition(Row(i - 1))
    /\ \E j \in LastPeriods(i) : RLe(Row(j).spread, Zero)

SwitchCondition(i) ==
    /\ i >= consecutive_periods
    /\ HeldPairDiffers(i)
    /\ RGt(Row(i).spread, Zero)

ForceClosed(i) ==
    /\ Row(i).rebalance_status = "rebalanced_negative"
    /\ NoPosition(Row(i))

Delevered(i) ==
    /\ Row(i).rebalance_status = "rebalanced_negative"
    /\ Row(i).current_supply_asset = Row(i - 1).current_supply_asset
    /\ NoAsset(Row(i).current_borrow_asset)

Switched(i) ==
    /\ Row(i).rebalance_status = "rebalanced_best_pair"
    /\ HoldsBestPair(i)

Held(i) ==
    /\ Row(i).rebalance_status = "no_rebalance"
    /\ Row(i).current_supply_asset = Row(i - 1).current_supply_asset
    /\ Row(i).current_borrow_asset = Row(i - 1).current_borrow_asset

RulePrecedence ==
    \A i \in 1 .. NumRows - 1 :
        /\ NegativeExitCondition(i) => ForceClosed(i)
        /\ (~NegativeExitCondition(i) /\ SuboptimalExitCondition(i))
           => Delevered(i) /\ SimplePosition(Row(i))
        /\ Cardinality({k \in 1 .. 4 :
                           \/ k = 1 /\ ForceClosed(i) /\ ~Delevered(i)
                           \/ k = 2 /\ Delevered(i)
                           \/ k = 3 /\ Switched(i)
                           \/ k = 4 /\ Held(i)}) = 1

(* The negative-exit and the switch conditions held together. *)
ExitAndSwitchTogether ==
    \E i \in 1 .. NumRows - 1 :
        /\ NegativeExitCondition(i)
        /\ SwitchCondition(i)
        /\ ForceClosed(i)

(* C7 as stated: a row that holds no position, the row of a forced close  *)
(* included, has a zero period return and the position value of the row    *)
(* before it.                                                              *)
NoPositionEarnsNothing ==
    \A i \in 0 .. NumRows - 1 :
        NoPosition(Row(i))
        => /\ Row(i).period_return = Zero
           /\ i >= 1 => Row(i).position_value = Row(i - 1).position_value

(* C8 as stated: position_value[0] = initial_collateral and                *)
(* position_value[i] = position_value[i-1] * (1 + period_return[i]), the   *)
(* period return being annualized_return * hours / (24*365) with the       *)
(* annualized return of the pair held in row i: supply_rate + spread *     *)
(* (leverage - 1) when leveraged, the supply rate when simple.             *)
HeldAnnualizedReturn(i) ==
    LET supply_rate ==
            SupplyApy(data_df, i, Row(i).current_supply_asset)
        spread ==
            RSub(supply_rate,
                 BorrowApy(data_df, i, Row(i).current_borrow_asset))
    IN  IF LeveragedPosition(Row(i))
        THEN RDiv(RAdd(supply_rate, RMul(spread, RSub(leverage, R(1)))),
                  R(100))
        ELSE RDiv(supply_rate, R(100))

ValueRecurrence ==
    /\ NumRows >= 1 => Row(0).position_value = initial_collateral
    /\ \A i \in 1 .. NumRows - 1 :
          LET period_return ==
                  IF NoPosition(Row(i))
                  THEN RDiv(Row(i).period_return, R(100))
                  ELSE RMul(HeldAnnualizedReturn(i),
                            RDiv(Row(i).hours_diff, R(24 * 365)))
          IN  /\ Row(i).period_return = RMul(period_return, R(100))
              /\ Row(i).position_value =
                    RMul(Row(i - 1).position_value,
                         RAdd(R(1), period_return))

(* C9 as stated: the transactions and swaps of a row follow from the       *)
(* transition between the position of row i-1 (NoPosition before row 0)    *)
(* and that of row i.                                                      *)
PositionOf(r) ==
    <<IF NoAsset(r.current_supply_asset) THEN "none"
      ELSE r.current_supply_asset,
      IF NoAsset(r.current_borrow_asset) THEN "none"
      ELSE r.current_borrow_asset>>

PositionBefore(i) ==
    IF i = 0 THEN <<"none", "none">> ELSE PositionOf(Row(i - 1))

Charged(i, transactions, swaps) ==
    /\ Row(i).transaction_count = transactions
    /\ Row(i).swap_count = swaps

ChargesFollowTransition ==
    \A i \in 0 .. NumRows - 1 :
        LET before == PositionBefore(i)
            after == PositionOf(Row(i))
            hadDebt == before[2] # "none"
            hasDebt == after[2] # "none"
        IN  /\ (hadDebt /\ hasDebt /\ before # after)
               => Charged(i, 4 * number_of_loops, R(2))
            /\ (hadDebt /\ ~hasDebt)
               => Charged(i, 2 * number_of_loops + 2, R(1))
            /\ (~hadDebt /\ hasDebt)
               => Charged(i, 2 * number_of_loops, R(1))
            /\ (~hadDebt /\ ~hasDebt /\ before # after
                /\ before[1] # "none" /\ after[1] # "none")
               => Row(i).transaction_count = 2
            /\ before = after => Charged(i, 0, Zero)

(* C10 as stated: the cumulative transaction counter, the cumulative swap  *)
(* counter and the cumulative cost never decrease from one row to the next.*)
CumulativesNeverDecrease ==
    \A i \in 1 .. NumRows - 1 :
        /\ Row(i - 1).total_transactions <= Row(i).total_transactions
        /\ RLe(Row(i - 1).total_swaps, Row(i).total_swaps)
        /\ RLe(Row(i - 1).total_costs_usd, Row(i).total_costs_usd)

---------------------------------------------------------------------------
(* C11: in every row, row 0 included, position_value_after_costs is        *)
(* position_value less the cumulative cost total_costs_usd of that row.    *)
ValueAfterCostsIsValueLessCumulativeCost ==
    \A i \in 0 .. NumRows - 1 :
        Row(i).position_value_after_costs =
            RSub(Row(i).position_value, Row(i).total_costs_usd)

(* A position opened in row 0 and rebalanced again later, so that the      *)
(* cumulative cost of the last row exceeds both the cost of row 0 and the  *)
(* cost of the last period.                                                *)
CostsAccumulatedOverRebalances ==
    /\ NumRows >= 2
    /\ RGt(Row(0).total_costs_usd, Zero)
    /\ RGt(Row(NumRows - 1).transaction_costs_usd, Zero)
    /\ RGt(Row(NumRows - 1).total_costs_usd,
           Row(NumRows - 1).transaction_costs_usd)
    /\ ~IsNaN(Row(NumRows - 1).position_value_after_costs)

---------------------------------------------------------------------------
(* The backtest on a series whose rows come in any timestamp order.  The   *)
(* whole input table is fixed at the start; line 219 sorts the selector's  *)
(* table by timestamp and renumbers it, while lines 287-296 keep reading   *)
(* data_df.loc[i], the i-th row of the table as it was passed in.          *)
(* Timestamps are distinct, so the order sort_values gives is determined.  *)

SeriesRateRows == {o \in RateRows : IsNaN(o["B"].supply)}

TimestampOrders(n) ==
    {p \in [1 .. n -> 0 .. n - 1] :
        \A j, k \in 1 .. n : j # k => p[j] # p[k]}

(* Variant: the table is left in the order of the input. *)
sort_values_kept(t) == t

(* results.sort_values('timestamp').reset_index(drop=True), line 219. *)
sort_values(t) ==
    [k \in 1 .. Len(t) |->
        t[CHOOSE j \in 1 .. Len(t) :
            Cardinality({m \in 1 .. Len(t) :
                            t[m].timestamp < t[j].timestamp}) = k - 1]]

(* Line 245: timestamp.diff() in hours, for row i >= 1 of the sorted table.*)
HoursDiff(t, i) ==
    Norm(Iloc(t, i).timestamp - Iloc(t, i - 1).timestamp, SECONDS_PER_HOUR)

InitAnyOrder ==
    /\ MarketIdle
    /\ results = << >>
    /\ current_spread = Zero
    /\ \E cfg \in LoopConfigs, c \in CollateralChoices :
          LET ltv == Norm(cfg.LTV[1], cfg.LTV[2])
              stop == Norm(cfg.stop[1], cfg.stop[2])
              loops == NumberOfLoops(ltv, stop)
          IN  /\ LTV = ltv
              /\ stop_condition = stop
              /\ initial_collateral = R(c)
              /\ number_of_loops = loops
              /\ leverage = Leverage(R(c), ltv, loops)
    /\ consecutive_periods \in PeriodChoices
    /\ \E h \in HoursChoices, n \in 1 .. MaxRows :
          \E p \in TimestampOrders(n), rates \in [1 .. n -> SeriesRateRows] :
              /\ time_interval_hours = h
              /\ data_df = [k \in 1 .. n |->
                               [timestamp |-> p[k] * h * SECONDS_PER_HOUR,
                                rates |-> rates[k]]]

(* Lines 215-275 on the sorted table. *)
InitializeFirstSorted ==
    /\ results = << >>
    /\ LET first == Iloc(sort_values(data_df), 0)
       IN  results' = <<InitialRow(first.rates, first.timestamp)>>
    /\ UNCHANGED <<data_df, current_spread, params, market_vars>>

(* One pass of the loop of line 279: row i of the sorted table, with the   *)
(* held pair's rates read from data_df.loc[i].                             *)
SimulateSortedPeriod ==
    /\ Len(results) >= 1
    /\ Len(results) < Len(data_df)
    /\ LET i == Len(results)
           sorted == sort_values(data_df)
           tbl == Append(results,
                         NewRow(Iloc(sorted, i).rates,
                                Iloc(sorted, i).timestamp,
                                HoursDiff(sorted, i)))
           pass == LoopPass(tbl, data_df, i, current_spread)
       IN  /\ results' = Append(results, pass.row)
           /\ current_spread' = pass.current_spread
    /\ UNCHANGED <<data_df, params, market_vars>>

NextAnyOrder == InitializeFirstSorted \/ SimulateSortedPeriod

SpecAnyOrder == InitAnyOrder /\ [][NextAnyOrder]_vars

StrictlyIncreasing(t) ==
    \A k \in 1 .. Len(t) - 1 : t[k].timestamp < t[k + 1].timestamp

(* C13 as stated: a series that is not strictly increasing in timestamp is *)
(* rejected, so no row is ever produced from it.                           *)
UnorderedSeriesProducesNoRows ==
    ~StrictlyIncreasing(data_df) => results = << >>

(* C13, amended: no order of the input is rejected; the rows come out in   *)
(* strictly increasing timestamp order, each carrying the selector's       *)
(* choice for the input row of that timestamp, at most one per input row.  *)
UnorderedSeriesIsSorted ==
    /\ NumRows <= Len(data_df)
    /\ StrictlyIncreasing(results)
    /\ \A i \in 0 .. NumRows - 1 :
          \E k \in 1 .. Len(data_df) :
              /\ data_df[k].timestamp = Row(i).timestamp
              /\ Cardinality({m \in 1 .. Len(data_df) :
                     data_df[m].timestamp < data_df[k].timestamp}) = i
              /\ Row(i).spread = find_best_pairs(data_df[k].rates).spread
              /\ Row(i).best_supply_asset =
                    find_best_pairs(data_df[k].rates).best_supply_asset

(* A series passed in out of order and simulated to its last row, whose    *)
(* earliest period is not the first input row and differs from it.         *)
UnorderedSeriesSimulated ==
    /\ ~StrictlyIncreasing(data_df)
    /\ NumRows = Len(data_df)
    /\ Row(0).timestamp # data_df[1].timestamp
    /\ Row(0).spread # find_best_pairs(data_df[1].rates).spread

---------------------------------------------------------------------------
(* C14 as stated: in a period where every asset is unavailable no          *)
(* transition is taken: a held position is carried with no_rebalance and   *)
(* no transactions, and without a position none is opened.                 *)
NoDataPeriod(i) ==
    \A a \in AssetSet :
        IsNaN(SupplyApy(data_df, i, a)) /\ IsNaN(BorrowApy(data_df, i, a))

NoDataPeriodTakesNoTransition ==
    \A i \in 0 .. NumRows - 1 :
        NoDataPeriod(i) =>
            IF i = 0 \/ NoPosition(Row(i - 1))
            THEN NoPosition(Row(i))
            ELSE /\ PositionOf(Row(i)) = PositionOf(Row(i - 1))
                 /\ Row(i).rebalance_status = "no_rebalance"
                 /\ Row(i).transaction_count = 0
                 /\ Row(i).swap_count = Zero

---------------------------------------------------------------------------
(* The backtest called with a look-back of consecutive_periods = 0.  The   *)
(* function has no parameter checks: the value only enters the comparison  *)
(* of line 319 and the ranges of lines 325 and 336, which are then empty.  *)

AnyPeriodChoices == {0, 1}

InitAnyPeriods ==
    /\ MarketIdle
    /\ data_df = << >>
    /\ results = << >>
    /\ current_spread = Zero
    /\ \E cfg \in LoopConfigs, c \in CollateralChoices :
          LET ltv == Norm(cfg.LTV[1], cfg.LTV[2])
              stop == Norm(cfg.stop[1], cfg.stop[2])
              loops == NumberOfLoops(ltv, stop)
          IN  /\ LTV = ltv
              /\ stop_condition = stop
              /\ initial_collateral = R(c)
              /\ number_of_loops = loops
              /\ leverage = Leverage(R(c), ltv, loops)
    /\ time_interval_hours \in HoursChoices
    /\ consecutive_periods \in AnyPeriodChoices

SpecAnyPeriods == InitAnyPeriods /\ [][Next]_vars

(* C15 as stated: a backtest called with consecutive_periods < 1 fails     *)
(* before any period is simulated and returns no rows.                     *)
InvalidPeriodsProduceNoRows ==
    consecutive_periods < 1 => results = << >>

---------------------------------------------------------------------------
(* The leverage sizing on its own: lines 249-251 of                        *)
(* backtest_enhanced_strategy, the same three statements as lines 91-93 of *)
(* backtest_strategy (llama_utils), over a grid of parameters that holds   *)
(* the defaults of backtest_strategy (LTV 0.9, stop 0.8, collateral 100).  *)
(* The arithmetic is exact: a stop_condition that is an exact power of LTV *)
(* is sized by its real value, not by the rounding of the two logarithms.  *)

Tenths(from) == {<<k, 10>> : k \in from .. 10}

SizingConfigs ==
    [LTV : {<<1, 10>>, <<1, 2>>}, stop : Tenths(1)]
    \cup [LTV : {<<1, 2>>}, stop : {<<1, 4>>}]
    \cup [LTV : {<<3, 4>>}, stop : Tenths(3)]
    \cup [LTV : {<<9, 10>>}, stop : Tenths(7)]

SizingCollaterals == {1, 10, 100}

InitSizing ==
    /\ MarketIdle
    /\ data_df = << >>
    /\ results = << >>
    /\ current_spread = Zero
    /\ time_interval_hours \in HoursChoices
    /\ consecutive_periods = 1
    /\ number_of_loops = 0
    /\ leverage = NaN
    /\ \E cfg \in SizingConfigs, c \in SizingCollaterals :
          /\ LTV = Norm(cfg.LTV[1], cfg.LTV[2])
          /\ stop_condition = Norm(cfg.stop[1], cfg.stop[2])
          /\ initial_collateral = R(c)

(* Lines 249-251. *)
SizeLeverage ==
    /\ results = << >>
    /\ LET loops == NumberOfLoops(LTV, stop_condition)
       IN  /\ number_of_loops' = loops
           /\ leverage' = Leverage(initial_collateral, LTV, loops)
           /\ results' =
                 <<[total_collateral |->
                        TotalCollateral(initial_collateral, LTV, loops)]>>
    /\ UNCHANGED <<data_df, current_spread, LTV, stop_condition,
                   initial_collateral, time_interval_hours,
                   consecutive_periods, market_vars>>

NextSizing == SizeLeverage

SpecSizing == InitSizing /\ [][NextSizing]_vars

Sized == results # << >>

(* 1 + x + ... + x^n, summed term by term. *)
RECURSIVE GeometricSum(_, _)
GeometricSum(x, n) ==
    IF n = 0 THEN R(1) ELSE RAdd(R(1), RMul(x, GeometricSum(x, n - 1)))

WorkedExampleInputs ==
    /\ LTV = Norm(9, 10)
    /\ stop_condition = Norm(8, 10)
    /\ initial_collateral = R(100)

Near(x, y, tolerance) ==
    /\ RLe(RSub(x, y), tolerance)
    /\ RLe(RSub(y, x), tolerance)

WorkedExampleTotals3399 ==
    (Sized /\ WorkedExampleInputs) =>
        /\ number_of_loops = 3
        /\ Near(Iloc(results, 0).total_collateral, Norm(3399, 10),
                Norm(1, 20))

(* C17, amended: the same inputs give number_of_loops = 3 and              *)
(* total_collateral = 100 * (1 - 0.9^4) / (1 - 0.9) = 343.9.               *)
WorkedExampleTotals3439 ==
    (Sized /\ WorkedExampleInputs) =>
        /\ number_of_loops = 3
        /\ Iloc(results, 0).total_collateral =
              RMul(R(100), RDiv(RSub(R(1), RPow(Norm(9, 10), 4)),
                                RSub(R(1), Norm(9, 10))))
        /\ Iloc(results, 0).total_collateral = Norm(3439, 10)

WorkedExampleSized == Sized /\ WorkedExampleInputs

---------------------------------------------------------------------------
(* The selector on one row of a rates table as a caller may pass it: each  *)
(* asset either missing (NaN, NaN) or with a supply and a borrow rate that *)
(* may be 0.  prepare_rates_data is the cleaning step a caller can apply   *)
(* first; backtest_enhanced_strategy passes its argument to                *)
(* find_best_pairs as it is (line 215).                                    *)

RawRateChoices == {0, 10, 20}

RawAssetRates ==
    {[supply |-> R(s), borrow |-> R(b)] :
        s \in RawRateChoices, b \in RawRateChoices}
    \cup {[supply |-> NaN, borrow |-> NaN]}

RawRateRows == [AssetSet -> RawAssetRates]

(* Variant: an asset is masked as soon as one of its rates is 0. *)
prepare_rates_data_either_zero(o) ==
    [a \in AssetSet |->
        IF o[a].supply = Zero \/ o[a].borrow = Zero
        THEN [supply |-> NaN, borrow |-> NaN]
        ELSE o[a]]

(* Lines 90-103, for one row: both rates of an asset become NaN where both *)
(* are 0; the result is a new row.                                         *)
prepare_rates_data(o) ==
    [a \in AssetSet |->
        IF o[a].supply = Zero /\ o[a].borrow = Zero
        THEN [supply |-> NaN, borrow |-> NaN]
        ELSE o[a]]

InitSelector ==
    /\ MarketIdle
    /\ \E o \in RawRateRows : data_df = <<[timestamp |-> 0, rates |-> o]>>
    /\ results = << >>
    /\ current_spread = Zero
    /\ LTV = Norm(1, 2)
    /\ stop_condition = Norm(1, 2)
    /\ initial_collateral = R(1)
    /\ time_interval_hours \in HoursChoices
    /\ consecutive_periods = 1
    /\ number_of_loops = 0
    /\ leverage = NaN

(* A caller replacing its table by the cleaned one before the selection. *)
PrepareRatesData ==
    /\ results = << >>
    /\ prepare_rates_data(Iloc(data_df, 0).rates) # Iloc(data_df, 0).rates
    /\ data_df' = <<[timestamp |-> Iloc(data_df, 0).timestamp,
                     rates |-> prepare_rates_data(Iloc(data_df, 0).rates)]>>
    /\ UNCHANGED <<results, current_spread, params, market_vars>>

(* Line 215: results = find_best_pairs(data_df). *)
FindBestPairs ==
    /\ results = << >>
    /\ results' = <<find_best_pairs(Iloc(data_df, 0).rates)>>
    /\ UNCHANGED <<data_df, current_spread, params, market_vars>>

NextSelector == PrepareRatesData \/ FindBestPairs

SpecSelector == InitSelector /\ [][NextSelector]_vars

Selected == results # << >>

(* The row the selector was given, and its choice. *)
Given == Iloc(data_df, 0).rates

Best == Iloc(results, 0)

Available(a) == ~IsNaN(Given[a].supply) /\ ~IsNaN(Given[a].borrow)

ColumnOf(a) == CHOOSE k \in 1 .. NumAssets : Assets[k] = a

(* C18: over the available assets, best_supply_asset has the maximum       *)
(* supply rate and best_borrow_asset the minimum borrow rate, each being   *)
(* the first such asset in column order, and spread is the supply rate of  *)
(* the one less the borrow rate of the other.                              *)
BestPairSelection ==
    (Selected /\ \E a \in AssetSet : Available(a)) =>
        LET s == Best.best_supply_asset
            b == Best.best_borrow_asset
        IN  /\ s \in AssetSet /\ Available(s)
            /\ b \in AssetSet /\ Available(b)
            /\ \A a \in AssetSet :
                  Available(a) =>
                     /\ RLe(Given[a].supply, Given[s].supply)
                     /\ Given[a].supply = Given[s].supply
                           => ColumnOf(s) <= ColumnOf(a)
                     /\ RLe(Given[b].borrow, Given[a].borrow)
                     /\ Given[a].borrow = Given[b].borrow
                           => ColumnOf(b) <= ColumnOf(a)
            /\ Best.supply_apy = Given[s].supply
            /\ Best.borrow_apy = Given[b].borrow
            /\ Best.spread = RSub(Given[s].supply, Given[b].borrow)

(* A selection among two available assets that tie on both rates, the      *)
(* chosen supply and borrow rates being different numbers.                 *)
SelectedAmongTies ==
    /\ Selected
    /\ \A a \in AssetSet : Available(a) /\ Given[a] = Given[Assets[1]]
    /\ Best.spread # Zero
    /\ Best.best_supply_asset = Assets[1]

(* C19 as stated: an asset whose supply rate and borrow rate are both 0 at *)
(* a timestamp is chosen neither as best supply nor as best borrow asset   *)
(* for that timestamp while another asset is available.                    *)
ZeroRated(a) == Given[a].supply = Zero /\ Given[a].borrow = Zero

MaskedAssetNeverSelected ==
    Selected =>
        \A a \in AssetSet :
            (ZeroRated(a)
             /\ \E other \in AssetSet \ {a} :
                    Available(other) /\ ~ZeroRated(other))
            => /\ Best.best_supply_asset # a
               /\ Best.best_borrow_asset # a

(* C20: when no asset is available at a timestamp, the selector's spread   *)
(* is the no-data marker NaN, not the number 0, and both best assets are   *)
(* none.                                                                   *)
NoDataSelection ==
    (Selected /\ \A a \in AssetSet : ~Available(a)) =>
        /\ IsNaN(Best.spread)
        /\ Best.spread # Zero
        /\ NoAsset(Best.best_supply_asset)
        /\ NoAsset(Best.best_borrow_asset)

(* The selection made on a row in which every asset is missing. *)
SelectedWithoutData ==
    /\ Selected
    /\ \A a \in AssetSet : ~Available(a)

---------------------------------------------------------------------------
(* prepare_rates_data on its own: the table passed in stays in data_df,    *)
(* the cleaned copy (line 90) is returned in results.                      *)

CleanRates ==
    /\ results = << >>
    /\ results' = <<[timestamp |-> Iloc(data_df, 0).timestamp,
                     rates |-> prepare_rates_data(Iloc(data_df, 0).rates)]>>
    /\ UNCHANGED <<data_df, current_spread, params, market_vars>>

NextNormalizer == CleanRates

SpecNormalizer == InitSelector /\ [][NextNormalizer]_vars

(* C21: prepare_rates_data returns NaN for the supply and the borrow rate  *)
(* of exactly the assets whose two rates are both 0, returns every other   *)
(* entry as it was (a single zero stays 0), and leaves the table it was    *)
(* given as it was.                                                        *)
NormalizerMasksBothZeroOnly ==
    [][results' # results =>
          /\ data_df' = data_df
          /\ \A a \in AssetSet :
                LET given == Iloc(data_df, 0).rates[a]
                    cleaned == Iloc(results', 0).rates[a]
                IN  IF given.supply = Zero /\ given.borrow = Zero
                    THEN IsNaN(cleaned.supply) /\ IsNaN(cleaned.borrow)
                    ELSE cleaned = given]_vars

(* A cleaned row in which one asset was masked and the other kept a single *)
(* zero rate.                                                              *)
CleanedWithSingleZeroKept ==
    /\ results # << >>
    /\ \E a, b \in AssetSet :
          /\ Iloc(data_df, 0).rates[a].supply = Zero
          /\ Iloc(data_df, 0).rates[a].borrow = Zero
          /\ IsNaN(Iloc(results, 0).rates[a].supply)
          /\ Iloc(data_df, 0).rates[b].supply = Zero
          /\ RGt(Iloc(data_df, 0).rates[b].borrow, Zero)
          /\ Iloc(results, 0).rates[b].supply = Zero

---------------------------------------------------------------------------
(* A caller of accrue_interests (as fetch_market_data, morpho_client line  *)
(* 161): it holds a MarketState and replaces it by the state returned for  *)
(* a block timestamp and a borrow rate.  Timestamps come in any order.     *)

AccrualStep == SECONDS_PER_YEAR \div 4

TimestampChoices == {0, AccrualStep, 2 * AccrualStep}

BorrowRateChoices == {0, 10, 100}

FeeChoices == {0, 10, WAD}

InitialMarkets ==
    {MarketState(sa, ss, ba, bs, lu, fee) :
        sa \in {0, 200, 300}, ss \in {0, 300}, ba \in {0, 100},
        bs \in {0, 100}, lu \in {0, AccrualStep}, fee \in FeeChoices}

InitAccrual ==
    /\ data_df = << >>
    /\ results = << >>
    /\ current_spread = Zero
    /\ LTV = Norm(1, 2)
    /\ stop_condition = Norm(1, 2)
    /\ initial_collateral = R(1)
    /\ time_interval_hours \in HoursChoices
    /\ consecutive_periods = 1
    /\ number_of_loops = 0
    /\ leverage = NaN
    /\ \E m \in InitialMarkets :
          /\ m.total_borrow_assets <= m.total_supply_assets
          /\ market_state = m
          /\ last_call = NoCall(m)

AccrueInterests ==
    /\ last_call.count < MaxAccruals
    /\ \E t \in TimestampChoices, r \in BorrowRateChoices :
          /\ market_state' = accrue_interests(t, market_state, r)
          /\ last_call' = [count |-> last_call.count + 1,
                           last_block_timestamp |-> t,
                           market_state |-> market_state,
                           borrow_rate |-> r]
    /\ UNCHANGED <<data_df, results, current_spread, params>>

NextAccrual == AccrueInterests

SpecAccrual == InitAccrual /\ [][NextAccrual]_vars

(* The latest call: whether one was made, the state it was given and the   *)
(* time elapsed since that state's last update.                            *)
Called == last_call.count > 0

GivenState == last_call.market_state

Elapsed == last_call.last_block_timestamp - GivenState.last_update

(* C22: accrue_interests on a state without debt returns a state with the  *)
(* same total_supply_assets, total_supply_shares, total_borrow_assets,     *)
(* total_borrow_shares and fee, whatever the timestamp and the rate.       *)
NoDebtAccrualKeepsTotals ==
    (Called /\ GivenState.total_borrow_assets = 0) =>
        /\ market_state.total_supply_assets = GivenState.total_supply_assets
        /\ market_state.total_supply_shares = GivenState.total_supply_shares
        /\ market_state.total_borrow_assets = GivenState.total_borrow_assets
        /\ market_state.total_borrow_shares = GivenState.total_borrow_shares
        /\ market_state.fee = GivenState.fee

(* A funded market without debt accrued over a non-zero interval at a      *)
(* non-zero rate and fee.                                                  *)
AccruedWithoutDebt ==
    /\ Called
    /\ GivenState.total_borrow_assets = 0
    /\ GivenState.total_supply_assets > 0
    /\ GivenState.fee # 0
    /\ Elapsed # 0
    /\ last_call.borrow_rate # 0

(* C23: a call whose timestamp is the state's last_update returns the      *)
(* state unchanged, and accruing twice to the same timestamp at the same   *)
(* rate gives what accruing once gives.                                    *)
AccrualIdempotent ==
    /\ (Called /\ Elapsed = 0) => market_state = GivenState
    /\ \A t \in TimestampChoices, r \in BorrowRateChoices :
          accrue_interests(t, accrue_interests(t, market_state, r), r)
              = accrue_interests(t, market_state, r)

(* A second call at the timestamp the first call accrued an indebted       *)
(* market to.                                                              *)
AccruedTwiceAtSameTimestamp ==
    /\ last_call.count = 2
    /\ Elapsed = 0
    /\ GivenState.total_borrow_assets > 100
    /\ last_call.borrow_rate # 0

(* C24 as stated: a call with a timestamp other than the state's           *)
(* last_update returns a state whose last_update is that timestamp, with   *)
(* or without debt.                                                        *)
AccrualAdvancesClock ==
    (Called /\ Elapsed # 0) =>
        market_state.last_update = last_call.last_block_timestamp

(* C25: with time elapsed and debt, the same interest                      *)
(* w_mul_down(total_borrow_assets, w_taylor_compounded(rate, elapsed)) is  *)
(* added to total_supply_assets and to total_borrow_assets; no call        *)
(* changes total_supply_assets - total_borrow_assets.                      *)
InterestAddedSymmetrically ==
    Called =>
        /\ market_state.total_supply_assets - market_state.total_borrow_assets
              = GivenState.total_supply_assets
                    - GivenState.total_borrow_assets
        /\ (Elapsed # 0 /\ GivenState.total_borrow_assets # 0) =>
              LET interest ==
                      w_mul_down(GivenState.total_borrow_assets,
                                 w_taylor_compounded(last_call.borrow_rate,
                                                     Elapsed))
              IN  /\ market_state.total_supply_assets =
                         GivenState.total_supply_assets + interest
                  /\ market_state.total_borrow_assets =
                         GivenState.total_borrow_assets + interest

(* Interest accrued on an indebted market that charges a fee. *)
AccruedInterestWithFee ==
    /\ Called
    /\ Elapsed > 0
    /\ GivenState.fee # 0
    /\ market_state.total_borrow_assets > GivenState.total_borrow_assets
    /\ market_state.total_supply_shares > GivenState.total_supply_shares

(* C26 as stated: the compounded rate is 0 at rate 0, so an accrual at     *)
(* borrow rate 0 leaves total_supply_assets and total_borrow_assets as     *)
(* they were.                                                              *)
ZeroRateAccruesNothing ==
    (Called /\ last_call.borrow_rate = 0) =>
        /\ w_taylor_compounded(0, Elapsed) = 0
        /\ market_state.total_supply_assets = GivenState.total_supply_assets
        /\ market_state.total_borrow_assets = GivenState.total_borrow_assets

(* C27: under a call with elapsed >= 0, a non-negative rate and fee <= WAD *)
(* total_supply_shares does not decrease, grows by the minted fee shares   *)
(* and only when fee # 0, and total_borrow_shares stays as it was.         *)
ShareTotalsMonotone ==
    (/\ Called
     /\ Elapsed >= 0
     /\ last_call.borrow_rate >= 0
     /\ GivenState.fee <= WAD) =>
        /\ market_state.total_supply_shares >= GivenState.total_supply_shares
        /\ market_state.total_supply_shares > GivenState.total_supply_shares
              => /\ GivenState.fee # 0
                 /\ market_state.total_supply_shares =
                       GivenState.total_supply_shares
                       + FeeShares(GivenState,
                                   market_state.total_borrow_assets
                                   - GivenState.total_borrow_assets)
        /\ market_state.total_borrow_shares = GivenState.total_borrow_shares

(* Fee shares minted in two calls in a row with increasing timestamps. *)
FeeSharesMintedTwice ==
    /\ last_call.count = 2
    /\ Elapsed > 0
    /\ GivenState.total_supply_shares > 300
    /\ market_state.total_supply_shares > GivenState.total_supply_shares

---------------------------------------------------------------------------
(* The conversion and division helpers called on their own, with amounts   *)
(* and totals from 0 to MaxAmount.  last_call holds the function called,   *)
(* its arguments and its outcome.                                          *)

Amounts == 0 .. MaxAmount

InitMath ==
    /\ data_df = << >>
    /\ results = << >>
    /\ current_spread = Zero
    /\ LTV = Norm(1, 2)
    /\ stop_condition = Norm(1, 2)
    /\ initial_collateral = R(1)
    /\ time_interval_hours \in HoursChoices
    /\ consecutive_periods = 1
    /\ number_of_loops = 0
    /\ leverage = NaN
    /\ market_state = MarketState(0, 0, 0, 0, 0, 0)
    /\ last_call = [fn |-> "None", args |-> << >>, outcome |-> Returns(0)]

ToSharesDown ==
    /\ \E assets \in Amounts, total_assets \in Amounts,
          total_shares \in Amounts :
          last_call' =
              [fn |-> "to_shares_down",
               args |-> <<assets, total_assets, total_shares>>,
               outcome |->
                   Returns(to_shares_down(assets, total_assets,
                                          total_shares))]
    /\ UNCHANGED <<data_df, results, current_spread, params, market_state>>

ToAssetsUp ==
    /\ \E shares \in Amounts, total_assets \in Amounts,
          total_shares \in Amounts :
          last_call' =
              [fn |-> "to_assets_up",
               args |-> <<shares, total_assets, total_shares>>,
               outcome |->
                   Returns(to_assets_up(shares, total_assets, total_shares))]
    /\ UNCHANGED <<data_df, results, current_spread, params, market_state>>

WDivUp ==
    /\ \E a \in Amounts, b \in Amounts :
          last_call' = [fn |-> "w_div_up", args |-> <<a, b>>,
                        outcome |-> w_div_up(a, b)]
    /\ UNCHANGED <<data_df, results, current_spread, params, market_state>>

WDivDown ==
    /\ \E a \in Amounts, b \in Amounts :
          last_call' = [fn |-> "w_div_down", args |-> <<a, b>>,
                        outcome |-> w_div_down(a, b)]
    /\ UNCHANGED <<data_df, results, current_spread, params, market_state>>

(* Amounts on the fixed-point scale: multiples of half a WAD. *)
WadAmounts == {a * (WAD \div 2) : a \in Amounts}

WMulDown ==
    /\ \E a \in Amounts \cup WadAmounts, b \in WadAmounts :
          last_call' = [fn |-> "w_mul_down", args |-> <<a, b>>,
                        outcome |-> Returns(w_mul_down(a, b))]
    /\ UNCHANGED <<data_df, results, current_spread, params, market_state>>

NextMath == ToSharesDown \/ ToAssetsUp \/ WDivUp \/ WDivDown \/ WMulDown

SpecMath == InitMath /\ [][NextMath]_vars

(* C28 as stated: to_shares_down(a, TA, TS) is floor(a * (TS + 10^6) /     *)
(* (TA + 1)) and to_assets_up(s, TA, TS) is ceil(s * (TA + 1) /            *)
(* (TS + 10^6)), for all non-negative totals, zero included.               *)
ConversionsUseVirtualOffsets ==
    LET x == last_call.args[1]
        total_assets == last_call.args[2]
        total_shares == last_call.args[3]
    IN  /\ last_call.fn = "to_shares_down" =>
              last_call.outcome.value =
                  (x * (total_shares + pow10(6))) \div (total_assets + 1)
        /\ last_call.fn = "to_assets_up" =>
              last_call.outcome.value =
                  (x * (total_assets + 1) + (total_shares + pow10(6)) - 1)
                      \div (total_shares + pow10(6))

(* C30: w_div_down(x, 0) and w_div_up(x, 0) raise a division-by-zero error *)
(* instead of returning a number, and the failed call leaves the market    *)
(* state as it was.                                                        *)
DivisionByZeroRaises ==
    (last_call.fn \in {"w_div_down", "w_div_up"} /\ last_call.args[2] = 0)
        => /\ last_call.outcome.raised = "ZeroDivisionError"
           /\ last_call.outcome # Returns(last_call.outcome.value)
           /\ market_state = MarketState(0, 0, 0, 0, 0, 0)

(* w_div_down called with a non-zero numerator and denominator 0. *)
DividedByZero ==
    /\ last_call.fn = "w_div_down"
    /\ last_call.args[1] > 0
    /\ last_call.args[2] = 0

---------------------------------------------------------------------------
(* C32: in every row the held position is exactly one of NoPosition,       *)
(* SimplePosition and LeveragedPosition: a borrow asset is never held      *)
(* without a supply asset.                                                 *)
PositionShape ==
    \A i \in 0 .. NumRows - 1 :
        /\ Cardinality({k \in 1 .. 3 :
                           \/ k = 1 /\ NoPosition(Row(i))
                           \/ k = 2 /\ SimplePosition(Row(i))
                           \/ k = 3 /\ LeveragedPosition(Row(i))}) = 1
        /\ ~NoAsset(Row(i).current_borrow_asset)
           => ~NoAsset(Row(i).current_supply_asset)

(* One run started with no position, opened a leveraged one and delevered  *)
(* it to a simple one.                                                     *)
AllShapesHeld ==
    /\ NumRows = MaxRows
    /\ NoPosition(Row(0))
    /\ \E i \in 1 .. NumRows - 1 :
          NoPosition(Row(i - 1)) /\ LeveragedPosition(Row(i))
    /\ \E i \in 1 .. NumRows - 1 :
          LeveragedPosition(Row(i - 1)) /\ SimplePosition(Row(i))

---------------------------------------------------------------------------
(* C33 as stated: in every row, row 0 included, the tag no_rebalance       *)
(* implies that the held pair is that of the row before (NoPosition before *)
(* row 0), that transaction_count and swap_count are 0 and that the        *)
(* cumulative counters and the cumulative cost are those of the row before *)
(* (0 before row 0); hence a row that changes the pair or charges          *)
(* transactions carries another tag.                                       *)
CumulativesBefore(i) ==
    IF i = 0 THEN <<0, Zero, Zero>>
    ELSE <<Row(i - 1).total_transactions, Row(i - 1).total_swaps,
           Row(i - 1).total_costs_usd>>

NoRebalanceMeansNothingHappened(i) ==
    Row(i).rebalance_status = "no_rebalance"
    => /\ PositionOf(Row(i)) = PositionBefore(i)
       /\ Charged(i, 0, Zero)
       /\ <<Row(i).total_transactions, Row(i).total_swaps,
            Row(i).total_costs_usd>> = CumulativesBefore(i)

StatusTagsMatch ==
    \A i \in 0 .. NumRows - 1 : NoRebalanceMeansNothingHappened(i)

---------------------------------------------------------------------------
(* C34 as stated: for every row i the cumulative transaction counter is    *)
(* the sum of transaction_count over rows 0..i, the cumulative swap        *)
(* counter the sum of swap_count over rows 0..i, and the cumulative cost   *)
(* the sum over rows 0..i of transaction_count * fixed transaction cost +  *)
(* swap cost; the opening charged at row 0 is counted in all three.        *)
RECURSIVE SumTransactions(_)
SumTransactions(i) ==
    IF i < 0 THEN 0
    ELSE SumTransactions(i - 1) + Row(i).transaction_count

RECURSIVE SumSwaps(_)
SumSwaps(i) ==
    IF i < 0 THEN Zero
    ELSE RAdd(SumSwaps(i - 1), Row(i).swap_count)

RECURSIVE SumCosts(_)
SumCosts(i) ==
    IF i < 0 THEN Zero
    ELSE RAdd(SumCosts(i - 1),
              RAdd(RMul(R(Row(i).transaction_count), TRANSACTION_COST_USD),
                   Row(i).swap_costs_usd))

CumulativesArePrefixSums ==
    \A i \in 0 .. NumRows - 1 :
        /\ Row(i).total_transactions = SumTransactions(i)
        /\ Row(i).total_swaps = SumSwaps(i)
        /\ Row(i).total_costs_usd = SumCosts(i)

---------------------------------------------------------------------------
(* C35 as stated: a row is closed to NoPosition with the tag               *)
(* rebalanced_negative only if row i-1 held both a supply and a borrow     *)
(* asset and the spread of that pair at period i's rates is below -10; a   *)
(* spread computed in an earlier period never triggers the close.          *)
ForceCloseOnlyFromLeveragedOnPeriodRates ==
    \A i \in 1 .. NumRows - 1 :
        ForceClosed(i)
        => /\ LeveragedPosition(Row(i - 1))
           /\ RLt(HeldSpread(i), NEGATIVE_SPREAD_LIMIT)

(* The same for the rows in which the close wrote None to both legs. *)
BothLegsClosed(i) ==
    /\ Row(i).rebalance_status = "rebalanced_negative"
    /\ IsNone(Row(i).current_supply_asset)
    /\ IsNone(Row(i).current_borrow_asset)

BothLegsClosedOnlyFromLeveragedOnPeriodRates ==
    \A i \in 1 .. NumRows - 1 :
        BothLegsClosed(i)
        => /\ LeveragedPosition(Row(i - 1))
           /\ RLt(HeldSpread(i), NEGATIVE_SPREAD_LIMIT)

---------------------------------------------------------------------------
(* C36 as stated: in every row position_value and                          *)
(* position_value_after_costs are defined numbers, also in and after a     *)
(* period in which the held asset's rate, or every asset's rate, is        *)
(* unavailable.                                                            *)
PositionValueDefined ==
    \A i \in 0 .. NumRows - 1 :
        /\ ~IsNaN(Row(i).position_value)
        /\ ~IsNaN(Row(i).position_value_after_costs)

---------------------------------------------------------------------------
(* C37 as stated: for non-negative x and positive y, w_mul_down(x, y) is   *)
(* floor(x*y / WAD), w_div_down(x, y) is floor(x*WAD / y) and              *)
(* w_div_up(x, y) is ceil(x*WAD / y), hence                                *)
(* w_div_down(x, y) <= w_div_up(x, y) <= w_div_down(x, y) + 1.             *)
WadHelpers ==
    LET x == last_call.args[1]
        y == last_call.args[2]
    IN  /\ (last_call.fn = "w_mul_down" /\ y > 0)
           => last_call.outcome = Returns((x * y) \div WAD)
        /\ (last_call.fn = "w_div_down" /\ y > 0)
           => last_call.outcome = Returns((x * WAD) \div y)
        /\ (last_call.fn = "w_div_up" /\ y > 0)
           => /\ last_call.outcome = Returns((x * WAD + y - 1) \div y)
              /\ w_div_down(x, y).value <= last_call.outcome.value
              /\ last_call.outcome.value <= w_div_down(x, y).value + 1

(* The same without the statements about w_div_up. *)
WadHelpersRoundingDown ==
    LET x == last_call.args[1]
        y == last_call.args[2]
    IN  /\ (last_call.fn = "w_mul_down" /\ y > 0)
           => last_call.outcome = Returns((x * y) \div WAD)
        /\ (last_call.fn = "w_div_down" /\ y > 0)
           => last_call.outcome = Returns((x * WAD) \div y)

---------------------------------------------------------------------------
(* The simple backtest variant, backtest_strategy of llama_utils.py. A     *)
(* column name is the sequence of its parts, so that filter(like=...) and  *)
(* filter(regex=...) are the substring searches pandas performs: the name  *)
(* arb_A_apyBaseBorrow contains the name part apyBase.                     *)

MaxSeriesRows == 2

apyBase == <<"apyBase">>

apyBaseBorrow == <<"apyBase", "Borrow">>

Column(prefix, asset, kind) == <<prefix, asset, "_">> \o kind

SeriesColumns ==
    {Column("arb_", "A", apyBase), Column("arb_", "A", apyBaseBorrow),
     Column("pol_", "C", apyBase), Column("pol_", "C", apyBaseBorrow)}

(* The rates a column may hold; a missing supply rate is NaN. *)
SeriesRateChoices(c) ==
    IF c = Column("arb_", "A", apyBase) THEN {R(5), R(20), NaN}
    ELSE IF c = Column("arb_", "A", apyBaseBorrow) THEN {R(10), R(30)}
    ELSE IF c = Column("pol_", "C", apyBase) THEN {R(8)}
    ELSE {R(2)}

SeriesRows ==
    {[timestamp |-> t, rates |-> f] :
        t \in 1 .. MaxSeriesRows,
        f \in {g \in [SeriesColumns -> {R(2), R(5), R(8), R(10), R(20),
                                        R(30), NaN}] :
                  \A c \in SeriesColumns : g[c] \in SeriesRateChoices(c)}}

AssetFilters == {"arb", "pol", "all"}

(* str.__contains__ and re.search of a plain pattern: name holds pattern   *)
(* as a run of consecutive parts.                                          *)
Contains(name, pattern) ==
    \E k \in 0 .. Len(name) - Len(pattern) :
        SubSeq(name, k + 1, k + Len(pattern)) = pattern

(* Lines 95-100: the columns kept by asset_filter. *)
FilteredColumns(asset_filter) ==
    IF asset_filter = "pol"
    THEN {c \in SeriesColumns : Contains(c, <<"pol_">>)}
    ELSE IF asset_filter = "arb"
    THEN {c \in SeriesColumns : Contains(c, <<"arb_">>)}
    ELSE SeriesColumns

(* DataFrame.filter(like=pattern) on the columns. *)
FilterLike(columns, pattern) == {c \in columns : Contains(c, pattern)}

(* DataFrame.max(axis=1) and min(axis=1) of one row: NaN cells are         *)
(* skipped, and the result is NaN when no cell is left.                    *)
RowValues(row, columns) ==
    {row.rates[c] : c \in {d \in columns : ~IsNaN(row.rates[d])}}

RowMax(row, columns) ==
    LET vals == RowValues(row, columns)
    IN  IF vals = {} THEN NaN
        ELSE CHOOSE v \in vals : \A w \in vals : RLe(w, v)

RowMin(row, columns) ==
    LET vals == RowValues(row, columns)
    IN  IF vals = {} THEN NaN
        ELSE CHOOSE v \in vals : \A w \in vals : RLe(v, w)

(* groupby('timestamp'): the distinct timestamps in increasing order, and  *)
(* the rows of one timestamp in the order of the table.                    *)
GroupKeys(df) ==
    LET keys == {df[k].timestamp : k \in 1 .. Len(df)}
    IN  [j \in 1 .. Cardinality(keys) |->
            CHOOSE t \in keys : Cardinality({u \in keys : u < t}) = j - 1]

Group(df, date) ==
    LET OfDate(r) == r.timestamp = date
    IN  SelectSeq(df, OfDate)

(* Lines 106-115: the merged row of one timestamp, from the first row of   *)
(* its group.                                                              *)
MergedRow(df, date, columns, total_collateral) ==
    LET data == Group(df, date)[1]
        max_apyBase == RowMax(data, FilterLike(columns, apyBase))
        min_apyBaseBorrow == RowMin(data, FilterLike(columns, apyBaseBorrow))
        spread == RSub(max_apyBase, min_apyBaseBorrow)
        final_apy ==
            RDiv(RAdd(RMul(max_apyBase, initial_collateral),
                      RMul(RSub(total_collateral, initial_collateral),
                           spread)),
                 initial_collateral)
    IN  [timestamp |-> date, diff |-> spread, max_apyBase |-> max_apyBase,
         final_apy |-> final_apy]

InitSimple ==
    /\ market_state = MarketState(0, 0, 0, 0, 0, 0)
    /\ \E f \in AssetFilters : last_call = [asset_filter |-> f]
    /\ \E n \in 1 .. MaxSeriesRows : data_df \in [1 .. n -> SeriesRows]
    /\ results = << >>
    /\ current_spread = Zero
    /\ time_interval_hours \in HoursChoices
    /\ consecutive_periods = 1
    /\ number_of_loops = 0
    /\ leverage = NaN
    /\ \E cfg \in LoopConfigs, c \in CollateralChoices :
          /\ LTV = Norm(cfg.LTV[1], cfg.LTV[2])
          /\ stop_condition = Norm(cfg.stop[1], cfg.stop[2])
          /\ initial_collateral = R(c)

(* Lines 91-124: the whole of backtest_strategy. *)
BacktestStrategy ==
    /\ results = << >>
    /\ LET loops == NumberOfLoops(LTV, stop_condition)
           total_collateral ==
               TotalCollateral(initial_collateral, LTV, loops)
           columns == FilteredColumns(last_call.asset_filter)
           dates == GroupKeys(data_df)
       IN  /\ number_of_loops' = loops
           /\ leverage' = Leverage(initial_collateral, LTV, loops)
           /\ results' =
                 [k \in 1 .. Len(dates) |->
                     MergedRow(data_df, dates[k], columns, total_collateral)]
    /\ UNCHANGED <<data_df, current_spread, LTV, stop_condition,
                   initial_collateral, time_interval_hours,
                   consecutive_periods, market_vars>>

NextSimple == BacktestStrategy

SpecSimple == InitSimple /\ [][NextSimple]_vars

(* The columns of the filtered table that hold supply rates, and those     *)
(* that hold borrow rates.                                                 *)
SupplyColumns ==
    {c \in FilteredColumns(last_call.asset_filter) :
        c[Len(c)] = "apyBase"}

BorrowColumns ==
    {c \in FilteredColumns(last_call.asset_filter) :
        c[Len(c)] = "Borrow"}

(* C38 as stated: at each timestamp max_apyBase is the maximum over the    *)
(* supply-rate columns only, the borrow rate is the minimum over the       *)
(* borrow-rate columns only, the spread is their difference and            *)
(* final_apy = max_apyBase + spread * (leverage - 1).                      *)
SimpleVariantRates ==
    \A k \in 1 .. Len(results) :
        LET data == Group(data_df, results[k].timestamp)[1]
            supply == RowMax(data, SupplyColumns)
            borrow == RowMin(data, BorrowColumns)
        IN  /\ results[k].max_apyBase = supply
            /\ results[k].diff = RSub(supply, borrow)
            /\ results[k].final_apy =
                  RAdd(results[k].max_apyBase,
                       RMul(results[k].diff, RSub(leverage, R(1))))

(* The leverage formula alone, on the rates the function did use. *)
SimpleVariantFinalApy ==
    \A k \in 1 .. Len(results) :
        results[k].final_apy =
            RAdd(results[k].max_apyBase,
                 RMul(results[k].diff, RSub(leverage, R(1))))

====
